---- MODULE Spec2Model ----
(***************************************************************************)
(* A model of excel-datamashup: ParseXml decodes the DataMashup element of *)
(* a customXml part (base64 -> length-prefixed binary stream -> nested ZIP *)
(* archives and UTF-8 texts) into a mutable Container, whose getFormula,   *)
(* setFormula, resetPermissions and save operations are modelled as the    *)
(* code performs them.                                                     *)
(*                                                                         *)
(* Texts are sequences of UTF-16 code units, buffers are sequences of      *)
(* bytes (0..255), exactly as JavaScript strings and Buffers are.          *)
(***************************************************************************)
EXTENDS Integers, Sequences, FiniteSets, TLC

(***************************************************************************)
(* Bounds of the model.                                                    *)
(***************************************************************************)
\* calls of getFormula, setFormula, resetPermissions and save() on one Container
MaxCalls == 2
\* the wall clock Date.now() advances at most this many ticks
MaxClock == 1

(***************************************************************************)
(* Sequences.                                                              *)
(***************************************************************************)
\* the concatenation of ss[lo..hi], by halves
RECURSIVE ConcatRange(_, _, _)
ConcatRange(ss, lo, hi) ==
    IF lo > hi THEN <<>>
    ELSE IF lo = hi THEN ss[lo]
    ELSE LET mid == (lo + hi) \div 2
         IN  ConcatRange(ss, lo, mid) \o ConcatRange(ss, mid + 1, hi)

\* Buffer.concat(list), and the concatenation of any sequence of sequences
Concat(ss) == ConcatRange(ss, 1, Len(ss))

\* s.startsWith(sub, at) with `at` a 1-based position
StartsWithAt(s, sub, at) ==
    /\ at >= 1
    /\ at + Len(sub) - 1 <= Len(s)
    /\ \A k \in 1..Len(sub) : s[at + k - 1] = sub[k]

\* String.prototype.endsWith
EndsWith(s, sub) == Len(sub) <= Len(s) /\ StartsWithAt(s, sub, Len(s) - Len(sub) + 1)

\* String.prototype.includes
Includes(s, sub) == \E at \in 1..(Len(s) + 1) : StartsWithAt(s, sub, at)

\* String.prototype.indexOf as a 1-based position; 0 when sub does not occur at or after `from`
IndexOfFrom(s, sub, from) ==
    LET hits == {at \in from..(Len(s) + 1) :
                   /\ sub = <<>> \/ (at <= Len(s) /\ s[at] = sub[1])
                   /\ StartsWithAt(s, sub, at)}
    IN  IF hits = {} THEN 0 ELSE CHOOSE at \in hits : \A o \in hits : at <= o

(***************************************************************************)
(* UTF-8.  Decoder.decode is the platform TextDecoder('utf-8') with the    *)
(* default options (fatal: false, ignoreBOM: false): malformed input       *)
(* becomes U+FFFD and one leading byte order mark is removed.              *)
(* Buffer.toString('utf-8') and Buffer.from(string) are the `buffer`       *)
(* package's utf8Slice and utf8ToBytes.                                    *)
(***************************************************************************)
ReplacementChar == 65533
ByteOrderMark == 65279

\* a code point as UTF-16 code units
CodeUnits(cp) ==
    IF cp > 65535
    THEN <<55296 + ((cp - 65536) \div 1024), 56320 + ((cp - 65536) % 1024)>>
    ELSE <<cp>>

\* The WHATWG UTF-8 decoder, position by position.  A lead byte (0xC2..0xF4)
\* starts a sequence wherever it stands; it takes the following bytes as long
\* as they are in range (the first one in a range that depends on the lead).
ContinuationsNeeded(x) ==
    IF x >= 194 /\ x <= 223 THEN 1
    ELSE IF x >= 224 /\ x <= 239 THEN 2
    ELSE IF x >= 240 /\ x <= 244 THEN 3
    ELSE 0

LowerBoundary(x) == IF x = 224 THEN 160 ELSE IF x = 240 THEN 144 ELSE 128

UpperBoundary(x) == IF x = 237 THEN 159 ELSE IF x = 244 THEN 143 ELSE 191

\* the byte k places after the lead at j continues its sequence
Continues(b, j, k) ==
    /\ j + k <= Len(b)
    /\ b[j + k] >= (IF k = 1 THEN LowerBoundary(b[j]) ELSE 128)
    /\ b[j + k] <= (IF k = 1 THEN UpperBoundary(b[j]) ELSE 191)

\* how many bytes the lead at j takes after itself
BytesSeen(b, j) ==
    Cardinality({k \in 1..ContinuationsNeeded(b[j]) : \A m \in 1..k : Continues(b, j, m)})

\* the byte at i was taken by a lead before it
TakenByLead(b, i) ==
    \E j \in (i - 3)..(i - 1) :
        /\ j >= 1
        /\ ContinuationsNeeded(b[j]) > 0
        /\ i - j <= BytesSeen(b, j)

\* the code points the decoder emits when it handles the byte at i
utf8Decode(b, i) ==
    LET x == b[i]
        n == ContinuationsNeeded(x)
        cp == CASE n = 1 -> (x % 32) * 64 + (b[i + 1] % 64)
                [] n = 2 -> (x % 16) * 4096 + (b[i + 1] % 64) * 64 + (b[i + 2] % 64)
                [] n = 3 -> (x % 8) * 262144 + (b[i + 1] % 64) * 4096
                              + (b[i + 2] % 64) * 64 + (b[i + 3] % 64)
    IN  IF TakenByLead(b, i) THEN <<>>
        ELSE IF x < 128 THEN <<x>>
        ELSE IF n > 0 /\ BytesSeen(b, i) = n THEN <<cp>>
        ELSE <<ReplacementChar>>

\* Decoder.decode(buffer)
DecoderDecode(b) ==
    LET cps == Concat([i \in 1..Len(b) |-> utf8Decode(b, i)])
        kept == IF cps # <<>> /\ cps[1] = ByteOrderMark THEN Tail(cps) ELSE cps
    IN  Concat([k \in 1..Len(kept) |-> CodeUnits(kept[k])])

IsContinuation(x) == x >= 128 /\ x <= 191

\* utf8Slice of the `buffer` package: bytesPerSequence of a first byte
BytesPerSequence(x) == IF x > 239 THEN 4 ELSE IF x > 223 THEN 3 ELSE IF x > 191 THEN 2 ELSE 1

\* utf8Slice: the code point of the sequence that starts at i
SequenceCodePoint(b, i) ==
    LET x == b[i]
        n == BytesPerSequence(x)
    IN  CASE n = 1 -> x
          [] n = 2 -> (x % 32) * 64 + (b[i + 1] % 64)
          [] n = 3 -> (x % 16) * 4096 + (b[i + 1] % 64) * 64 + (b[i + 2] % 64)
          [] n = 4 -> (x % 16) * 262144 + (b[i + 1] % 64) * 4096
                        + (b[i + 2] % 64) * 64 + (b[i + 3] % 64)

\* utf8Slice: the sequence that starts at i yields a code point
SequenceValid(b, i) ==
    LET n == BytesPerSequence(b[i])
        t == SequenceCodePoint(b, i)
    IN  /\ i + n - 1 <= Len(b)
        /\ \A k \in 1..(n - 1) : IsContinuation(b[i + k])
        /\ CASE n = 1 -> t < 128
             [] n = 2 -> t > 127
             [] n = 3 -> t > 2047 /\ (t < 55296 \/ t > 57343)
             [] n = 4 -> t > 65535 /\ t < 1114112

\* utf8Slice: the byte at i belongs to a valid sequence that starts before it
\* (a first byte above 0xBF is never inside another sequence)
InsideSequence(b, i) ==
    \E j \in (i - 3)..(i - 1) :
        /\ j >= 1
        /\ b[j] > 191
        /\ i - j <= BytesPerSequence(b[j]) - 1
        /\ SequenceValid(b, j)

\* utf8Slice: the code units pushed for the byte at i
utf8Slice(b, i) ==
    IF InsideSequence(b, i) THEN <<>>
    ELSE IF SequenceValid(b, i) THEN CodeUnits(SequenceCodePoint(b, i))
    ELSE <<ReplacementChar>>

\* item.data.toString('utf-8')
BufferToString(b) == Concat([i \in 1..Len(b) |-> utf8Slice(b, i)])

\* the UTF-8 bytes of one code point
utf8Bytes(cp) ==
    IF cp < 128 THEN <<cp>>
    ELSE IF cp < 2048 THEN <<192 + (cp \div 64), 128 + (cp % 64)>>
    ELSE IF cp < 65536
      THEN <<224 + (cp \div 4096), 128 + ((cp \div 64) % 64), 128 + (cp % 64)>>
    ELSE <<240 + (cp \div 262144), 128 + ((cp \div 4096) % 64),
           128 + ((cp \div 64) % 64), 128 + (cp % 64)>>

IsSurrogate(u) == u > 55295 /\ u < 57344

IsLeadSurrogate(u) == u > 55295 /\ u < 56320

\* utf8ToBytes of the `buffer` package: the bytes pushed for the code unit at
\* i.  A lead surrogate that is not the last unit is held back (leadSurrogate)
\* and is paired, or replaced, when the next unit is handled.
utf8ToBytes(s, i) ==
    LET u == s[i]
        lead == IF i > 1 /\ IsLeadSurrogate(s[i - 1]) THEN s[i - 1] ELSE 0
    IN  IF IsSurrogate(u) THEN
          IF lead = 0 THEN
            IF u > 56319 \/ i = Len(s) THEN utf8Bytes(ReplacementChar) ELSE <<>>
          ELSE IF u < 56320 THEN utf8Bytes(ReplacementChar)
          ELSE utf8Bytes((lead - 55296) * 1024 + (u - 56320) + 65536)
        ELSE (IF lead # 0 THEN utf8Bytes(ReplacementChar) ELSE <<>>) \o utf8Bytes(u)

\* Buffer.from(string)
BufferFromString(s) == Concat([i \in 1..Len(s) |-> utf8ToBytes(s, i)])

(***************************************************************************)
(* base64-js.                                                              *)
(***************************************************************************)
\* lookup[i]: the character code of the 6-bit value i
lookup(v) ==
    IF v < 26 THEN 65 + v
    ELSE IF v < 52 THEN 97 + (v - 26)
    ELSE IF v < 62 THEN 48 + (v - 52)
    ELSE IF v = 62 THEN 43 ELSE 47

\* revLookup[code] with undefined read as 0, which is what the shifts and
\* ors of toByteArray make of it; '-' and '_' are accepted for 62 and 63
revLookup(c) ==
    IF c >= 65 /\ c <= 90 THEN c - 65
    ELSE IF c >= 97 /\ c <= 122 THEN c - 97 + 26
    ELSE IF c >= 48 /\ c <= 57 THEN c - 48 + 52
    ELSE IF c = 43 \/ c = 45 THEN 62
    ELSE IF c = 47 \/ c = 95 THEN 63
    ELSE 0

PadChar == 61

\* base64.fromByteArray(buffer)
fromByteArray(b) ==
    LET n == Len(b)
        full == n \div 3
        extra == n % 3
        Group(g) == LET x == b[3 * g - 2] y == b[3 * g - 1] z == b[3 * g]
                    IN  <<lookup(x \div 4), lookup((x % 4) * 16 + (y \div 16)),
                          lookup((y % 16) * 4 + (z \div 64)), lookup(z % 64)>>
        tail == IF extra = 1
                  THEN LET x == b[n]
                       IN  <<lookup(x \div 4), lookup((x % 4) * 16), PadChar, PadChar>>
                ELSE IF extra = 2
                  THEN LET x == b[n - 1] y == b[n]
                       IN  <<lookup(x \div 4), lookup((x % 4) * 16 + (y \div 16)),
                             lookup((y % 16) * 4), PadChar>>
                ELSE <<>>
    IN  Concat([g \in 1..full |-> Group(g)]) \o tail

\* base64.toByteArray(text): [threw |-> TRUE] when the length is not a
\* multiple of 4 (getLens throws), else the decoded bytes.  Characters outside
\* the alphabet are not rejected: they decode as zero bits.
toByteArray(t) ==
    LET len == Len(t)
        eq == IndexOfFrom(t, <<PadChar>>, 1)
        validLen == IF eq = 0 THEN len ELSE eq - 1
        placeHoldersLen == IF validLen = len THEN 0 ELSE 4 - (validLen % 4)
        loopLen == IF placeHoldersLen > 0 THEN validLen - 4 ELSE validLen
        groups == IF loopLen <= 0 THEN 0 ELSE (loopLen + 3) \div 4
        byteLength == ((validLen + placeHoldersLen) * 3) \div 4 - placeHoldersLen
        At(k) == IF k <= len THEN revLookup(t[k]) ELSE 0
        Group(g) == LET tmp == At(4 * g - 3) * 262144 + At(4 * g - 2) * 4096
                               + At(4 * g - 1) * 64 + At(4 * g)
                    IN  <<(tmp \div 65536) % 256, (tmp \div 256) % 256, tmp % 256>>
        i == 4 * groups
        two == LET tmp == At(i + 1) * 4 + (At(i + 2) \div 16) IN <<tmp % 256>>
        one == LET tmp == At(i + 1) * 1024 + At(i + 2) * 16 + (At(i + 3) \div 4)
               IN  <<(tmp \div 256) % 256, tmp % 256>>
        written == Concat([g \in 1..groups |-> Group(g)])
                     \o (IF placeHoldersLen = 2 THEN two ELSE <<>>)
                     \o (IF placeHoldersLen = 1 THEN one ELSE <<>>)
        \* writes past the end of the typed array are dropped, unwritten
        \* elements stay 0
        arr == [k \in 1..(IF byteLength < 0 THEN 0 ELSE byteLength) |->
                   IF k <= Len(written) THEN written[k] ELSE 0]
    IN  IF len % 4 > 0 THEN [threw |-> TRUE, bytes |-> <<>>]
        ELSE [threw |-> FALSE, bytes |-> arr]

(***************************************************************************)
(* The binary layout.                                                      *)
(***************************************************************************)
\* buffer.writeUInt32LE(value, 0) on Buffer.alloc(4)
UInt32LE(v) == <<v % 256, (v \div 256) % 256, (v \div 65536) % 256, (v \div 16777216) % 256>>

\* dataView.getUint32(offset, true), `at` the 1-based position of the first byte
ReadUInt32LE(b, at) == b[at] + b[at + 1] * 256 + b[at + 2] * 65536 + b[at + 3] * 16777216

\* FormulaSectionDefault: 'Section1.m'
FormulaSectionDefault == <<83, 101, 99, 116, 105, 111, 110, 49, 46, 109>>

\* PermissionDefaults: the default permissions XML, with its \r\n and \t
PermissionDefaults == <<
    60, 63, 120, 109, 108, 32, 118, 101, 114, 115, 105, 111, 110, 61, 34, 49, 46, 48, 34, 32,
    101, 110, 99, 111, 100, 105, 110, 103, 61, 34, 117, 116, 102, 45, 56, 34, 63, 62, 13, 10,
    60, 80, 101, 114, 109, 105, 115, 115, 105, 111, 110, 76, 105, 115, 116, 32, 120, 109, 108, 110,
    115, 58, 120, 115, 105, 61, 34, 104, 116, 116, 112, 58, 47, 47, 119, 119, 119, 46, 119, 51,
    46, 111, 114, 103, 47, 50, 48, 48, 49, 47, 88, 77, 76, 83, 99, 104, 101, 109, 97, 45,
    105, 110, 115, 116, 97, 110, 99, 101, 34, 62, 13, 10, 9, 60, 67, 97, 110, 69, 118, 97,
    108, 117, 97, 116, 101, 70, 117, 116, 117, 114, 101, 80, 97, 99, 107, 97, 103, 101, 115, 62,
    102, 97, 108, 115, 101, 60, 47, 67, 97, 110, 69, 118, 97, 108, 117, 97, 116, 101, 70, 117,
    116, 117, 114, 101, 80, 97, 99, 107, 97, 103, 101, 115, 62, 13, 10, 9, 60, 70, 105, 114,
    101, 119, 97, 108, 108, 69, 110, 97, 98, 108, 101, 100, 62, 116, 114, 117, 101, 60, 47, 70,
    105, 114, 101, 119, 97, 108, 108, 69, 110, 97, 98, 108, 101, 100, 62, 13, 10, 9, 60, 87,
    111, 114, 107, 98, 111, 111, 107, 71, 114, 111, 117, 112, 84, 121, 112, 101, 32, 120, 115, 105,
    58, 110, 105, 108, 61, 34, 116, 114, 117, 101, 34, 32, 47, 62, 13, 10, 60, 47, 80, 101,
    114, 109, 105, 115, 115, 105, 111, 110, 76, 105, 115, 116, 62>>


(***************************************************************************)
(* The ZIP codec (fflate's zip and unzip), at its interface.  The model's  *)
(* archive is the magic 'P' 'K', the number of entries, and per entry its  *)
(* modification stamp, its flag (1: the name is UTF-8), the length of its  *)
(* name in bytes, the name, the length of its data (two bytes,             *)
(* little-endian) and the data.  As fflate is called with no mtime option, *)
(* zip stamps every entry with the clock's current value.  zip writes a    *)
(* name in UTF-8 and reports an error for a name longer than the length    *)
(* field holds (one byte here, two in the ZIP format); unzip reads a name  *)
(* that is not marked as UTF-8 as latin-1.                                 *)
(***************************************************************************)
ZipMagic == <<80, 75>>

\* the longest name an entry can have, in bytes: what its length field holds
MaxNameBytes == 255

\* fflate strToU8(str): TextEncoder's UTF-8
strToU8(str) == BufferFromString(str)

\* fflate strFromU8(dat, latin1): one character per byte, or TextDecoder's UTF-8
strFromU8(dat, latin1) == IF latin1 THEN dat ELSE DecoderDecode(dat)

ZipEntryBytes(stamp, flag, name, data) ==
    <<stamp, flag, Len(name)>> \o name \o <<Len(data) % 256, Len(data) \div 256>> \o data

\* the entry zip writes for a file: its name in UTF-8, marked as UTF-8 when
\* that differs from one byte per character
ZipFileBytes(stamp, file) ==
    LET name == strToU8(file.path)
    IN  ZipEntryBytes(stamp, IF Len(name) # Len(file.path) THEN 1 ELSE 0, name, file.data)

\* the archive of `files`, the zippable object's own properties in order
ZipArchive(files, stamp) ==
    ZipMagic \o <<Len(files)>>
      \o Concat([k \in 1..Len(files) |-> ZipFileBytes(stamp, files[k])])

\* zip cannot store this name
NameTooLong(path) == Len(strToU8(path)) > MaxNameBytes

\* fflate zip(zippable, cb): err for a name too long to store, or the archive
Zip(files, stamp) ==
    IF \E k \in 1..Len(files) : NameTooLong(files[k].path)
    THEN [err |-> TRUE, data |-> <<>>]
    ELSE [err |-> FALSE, data |-> ZipArchive(files, stamp)]

\* obj[path] = data on an object kept as its ordered own properties: a key
\* already present keeps its place and takes the new value
SetProperty(files, path, data) ==
    IF \E k \in 1..Len(files) : files[k].path = path
    THEN [k \in 1..Len(files) |->
            IF files[k].path = path THEN [path |-> path, data |-> data] ELSE files[k]]
    ELSE Append(files, [path |-> path, data |-> data])

\* the entries of b[at..], n of them still expected; a name not marked as
\* UTF-8 is read as latin-1
RECURSIVE ZipReadEntries(_, _, _, _)
ZipReadEntries(b, at, n, files) ==
    IF n = 0 THEN [err |-> at # Len(b) + 1, files |-> files]
    ELSE IF at + 2 > Len(b) THEN [err |-> TRUE, files |-> <<>>]
    ELSE LET nameLen == b[at + 2]
             lenAt == at + 3 + nameLen
         IN  IF lenAt + 1 > Len(b) THEN [err |-> TRUE, files |-> <<>>]
             ELSE LET dataLen == b[lenAt] + b[lenAt + 1] * 256
                      path == strFromU8(SubSeq(b, at + 3, lenAt - 1), b[at + 1] % 2 = 0)
                      data == SubSeq(b, lenAt + 2, lenAt + 1 + dataLen)
                  IN  IF lenAt + 1 + dataLen > Len(b) THEN [err |-> TRUE, files |-> <<>>]
                      ELSE ZipReadEntries(b, lenAt + 2 + dataLen, n - 1,
                                          SetProperty(files, path, data))

\* fflate unzip(buffer): err, or the files object
Unzip(b) ==
    IF Len(b) < 3 \/ SubSeq(b, 1, 2) # ZipMagic THEN [err |-> TRUE, files |-> <<>>]
    ELSE ZipReadEntries(b, 4, b[3], <<>>)

\* unzipChunks(chunks, resolve): the items handed to resolve
unzipChunks(chunks) ==
    LET u == Unzip(chunks)
    IN  IF u.err THEN <<>>
        ELSE [k \in 1..Len(u.files) |->
                [path |-> u.files[k].path, type |-> "File", size |-> Len(u.files[k].data),
                 data |-> [isString |-> FALSE, v |-> u.files[k].data]]]

\* the zippable object zipItems builds from the items, text re-encoded
RECURSIVE Zippable(_, _)
Zippable(items, files) ==
    IF items = <<>> THEN files
    ELSE LET item == Head(items)
             data == IF item.data.isString THEN BufferFromString(item.data.v)
                     ELSE item.data.v
         IN  Zippable(Tail(items), SetProperty(files, item.path, data))

\* a zipItems that leaves out the entries zip cannot store and packs the rest;
\* ArchiveFailureRecovery tells it from the code's
zipItemsSkipping(items, stamp) ==
    LET files == Zippable(items, <<>>)
    IN  ZipArchive(SelectSeq(files, LAMBDA file : ~NameTooLong(file.path)), stamp)

\* zipItems(items), called when the clock shows `stamp`: the buffer it resolves
\* with, Buffer.alloc(0) when zip reports an error
zipItems(items, stamp) ==
    LET zipped == Zip(Zippable(items, <<>>), stamp)
    IN  IF zipped.err THEN <<>> ELSE zipped.data

(***************************************************************************)
(* ParseXml's helpers.                                                     *)
(***************************************************************************)
\* "<DataMashup" and "</DataMashup>" of DataMashupRegexp
TagStart == <<60, 68, 97, 116, 97, 77, 97, 115, 104, 117, 112>>
TagEnd == <<60, 47, 68, 97, 116, 97, 77, 97, 115, 104, 117, 112, 62>>
GreaterThan == 62

\* what String.prototype.trim removes
WhiteSpace == {9, 10, 11, 12, 13, 32, 160, 5760, 8232, 8233, 8239, 8287, 12288, 65279}
                 \cup (8192..8202)

Trim(s) ==
    LET keep == {k \in 1..Len(s) : s[k] \notin WhiteSpace}
    IN  IF keep = {} THEN <<>>
        ELSE SubSeq(s, CHOOSE k \in keep : \A o \in keep : k <= o,
                       CHOOSE k \in keep : \A o \in keep : k >= o)

\* xml.match(/<DataMashup[^>]*>(.*?)<\/DataMashup>/s): the leftmost start for
\* which the start tag closes and an end tag follows; group 1 reaches to the
\* first end tag after it
DataMashupRegexp(xml) ==
    LET Open(at) == IndexOfFrom(xml, <<GreaterThan>>, at + Len(TagStart))
        Close(at) == IndexOfFrom(xml, TagEnd, Open(at) + 1)
        starts == {at \in 1..Len(xml) :
                     /\ StartsWithAt(xml, TagStart, at)
                     /\ Open(at) # 0
                     /\ Close(at) # 0}
        first == CHOOSE at \in starts : \A o \in starts : at <= o
    IN  IF starts = {} THEN [matched |-> FALSE, group1 |-> <<>>]
        ELSE [matched |-> TRUE, group1 |-> SubSeq(xml, Open(first) + 1, Close(first) - 1)]

\* an ExtractDataMashupBinary that does not trim the group; MissingTagDetectionAmended
\* tells it from the code's
ExtractDataMashupBinaryUntrimmed(xml) ==
    LET match == DataMashupRegexp(xml)
    IN  IF match.matched THEN [defined |-> TRUE, text |-> match.group1]
        ELSE [defined |-> FALSE, text |-> <<>>]

\* ExtractDataMashupBinary(xml): undefined, or the trimmed group
ExtractDataMashupBinary(xml) ==
    LET match == DataMashupRegexp(xml)
    IN  IF match.matched THEN [defined |-> TRUE, text |-> Trim(match.group1)]
        ELSE [defined |-> FALSE, text |-> <<>>]

\* uint32le(length) followed by array(uint8, length) at position `at`;
\* the DataView read throws a RangeError past the end of the buffer
ReadLengthPrefixed(b, at) ==
    IF at + 3 > Len(b) THEN [threw |-> TRUE, bytes |-> <<>>, next |-> at]
    ELSE LET n == ReadUInt32LE(b, at)
         IN  IF at + 3 + n > Len(b) THEN [threw |-> TRUE, bytes |-> <<>>, next |-> at]
             ELSE [threw |-> FALSE, bytes |-> SubSeq(b, at + 4, at + 3 + n),
                   next |-> at + 4 + n]

NoRootData == [threw |-> TRUE, version |-> 0, packageParts |-> <<>>, permissions |-> <<>>,
               metadata |-> <<>>, permissionBindings |-> <<>>]

\* ParserRoot.parse(buffer)
ParserRoot(b) ==
    IF Len(b) < 4 THEN NoRootData
    ELSE LET parts == ReadLengthPrefixed(b, 5)
             perms == ReadLengthPrefixed(b, parts.next)
             meta == ReadLengthPrefixed(b, perms.next)
             binds == ReadLengthPrefixed(b, meta.next)
         IN  IF parts.threw THEN NoRootData
             ELSE IF perms.threw THEN NoRootData
             ELSE IF meta.threw THEN NoRootData
             ELSE IF binds.threw THEN NoRootData
             ELSE [threw |-> FALSE, version |-> ReadUInt32LE(b, 1),
                   packageParts |-> parts.bytes, permissions |-> perms.bytes,
                   metadata |-> meta.bytes, permissionBindings |-> binds.bytes]

NoMetadataData == [threw |-> TRUE, version |-> 0, metadataXml |-> <<>>, content |-> <<>>]

\* ParserMetadata.parse(buffer)
ParserMetadata(b) ==
    IF Len(b) < 4 THEN NoMetadataData
    ELSE LET xml == ReadLengthPrefixed(b, 5)
             content == ReadLengthPrefixed(b, xml.next)
         IN  IF xml.threw THEN NoMetadataData
             ELSE IF content.threw THEN NoMetadataData
             ELSE [threw |-> FALSE, version |-> ReadUInt32LE(b, 1),
                   metadataXml |-> xml.bytes, content |-> content.bytes]

DotXml == <<46, 120, 109, 108>>
DotM == <<46, 109>>

\* a conversion that knows the `.xml` suffix only; PackagePartsTextNormalization
\* tells it from the code's
ConvertUnzippedItemOnlyXml(item) ==
    IF EndsWith(item.path, DotXml) /\ ~item.data.isString
    THEN [item EXCEPT !.data = [isString |-> TRUE, v |-> BufferToString(item.data.v)]]
    ELSE item

\* ConvertUnzippedItemXmlToString(item)
ConvertUnzippedItemXmlToString(item) ==
    LET isXml == EndsWith(item.path, DotXml) \/ EndsWith(item.path, DotM)
    IN  IF isXml /\ ~item.data.isString
        THEN [item EXCEPT !.data = [isString |-> TRUE, v |-> BufferToString(item.data.v)]]
        ELSE item


(***************************************************************************)
(* Inputs: the customXml documents ParseXml is given.  A document is       *)
(* described by its shape (how the payload is wrapped) and the fields of   *)
(* the binary stream inside; XmlOf builds its text.                        *)
(***************************************************************************)
\* the layout ParserRoot reads, written out for a stream with these fields
RootBytes(f) ==
    LET metadata == UInt32LE(f.metadataVersion)
                      \o UInt32LE(Len(f.metadataXml)) \o f.metadataXml
                      \o UInt32LE(Len(f.content)) \o f.content
    IN  UInt32LE(f.version)
          \o UInt32LE(Len(f.packageParts)) \o f.packageParts
          \o UInt32LE(Len(f.permissions)) \o f.permissions
          \o UInt32LE(Len(metadata)) \o metadata
          \o UInt32LE(Len(f.permissionBindings)) \o f.permissionBindings

File(path, data) == [path |-> path, data |-> data]

PathPackageXml == <<67, 111, 110, 102, 105, 103, 47, 80, 97, 99, 107, 97, 103, 101, 46, 120, 109, 108>>
PathSection1 == <<70, 111, 114, 109, 117, 108, 97, 115, 47, 83, 101, 99, 116, 105, 111, 110, 49, 46, 109>>
PathSection1Backup == <<70, 111, 114, 109, 117, 108, 97, 115, 47, 83, 101, 99, 116, 105, 111, 110, 49, 46, 109, 46, 98, 97, 107>>
PathItemXml == <<97, 46, 120, 109, 108>>
PathContentTypes == <<91, 67, 111, 110, 116, 101, 110, 116, 95, 84, 121, 112, 101, 115, 93, 46, 120, 109, 108>>
Utf8Bom == <<239, 187, 191>>

\* a stream as Excel writes it: a package with Section1.m, permissions and
\* metadata XML, a metadata archive, and permission bindings
BaseFields ==
    [shape |-> "plain", version |-> 0,
     packageParts |-> ZipArchive(<<File(PathPackageXml, <<60, 112, 47, 62>>),
                                   File(PathSection1, <<65>>)>>, 0),
     permissions |-> <<60, 80, 47, 62>>,
     metadataVersion |-> 0,
     metadataXml |-> <<60, 77, 47, 62>>,
     content |-> ZipArchive(<<File(PathContentTypes, <<60, 84, 47, 62>>)>>, 0),
     permissionBindings |-> <<1, 255>>]

\* a package without a formula entry, whose only entry is text that is not
\* well-formed UTF-8
NoFormulaFields ==
    [BaseFields EXCEPT !.packageParts = ZipArchive(<<File(PathItemXml, <<255, 65>>)>>, 0)]

\* both archives are bytes the ZIP decoder rejects
GarbageFields ==
    [BaseFields EXCEPT !.packageParts = <<1, 2, 3>>, !.content = <<7>>]

\* an entry whose path contains 'Section1.m' without ending in '.m' comes first
BackupFields ==
    [BaseFields EXCEPT !.packageParts =
        ZipArchive(<<File(PathSection1Backup, <<66>>), File(PathSection1, <<65>>)>>, 0)]

\* the text fields begin with byte order marks
BomFields ==
    [BaseFields EXCEPT !.permissions = Utf8Bom \o Utf8Bom \o @,
                       !.metadataXml = Utf8Bom \o @]

\* other versions, a two-byte character, no bindings, an archive without
\* entries, and the payload wrapped as Excel wraps it
OtherFields ==
    [BaseFields EXCEPT !.shape = "attributes", !.version = 16909060,
                       !.metadataVersion = 2, !.permissions = <<195, 169>>,
                       !.content = ZipArchive(<<>>, 0), !.permissionBindings = <<>>]

\* a name of 128 bytes E9: 128 characters read as latin-1, 256 bytes in UTF-8
LongLatin1Name == [i \in 1..128 |-> 233]

\* packageParts is no archive, and the content archive has one entry, whose
\* name is not marked as UTF-8 and is too long once it is written in UTF-8
LongNameFields ==
    [BaseFields EXCEPT !.packageParts = <<1, 2, 3>>,
                       !.content = ZipMagic \o <<1>>
                                     \o ZipEntryBytes(0, 0, LongLatin1Name, <<84>>)]

\* the packageParts archive has the formula entry and an entry with that name
LongPathFields ==
    [BaseFields EXCEPT !.packageParts = ZipMagic \o <<2>>
                                          \o ZipEntryBytes(0, 0, PathSection1, <<65>>)
                                          \o ZipEntryBytes(0, 0, LongLatin1Name, <<84>>)]

FieldVariants ==
    {NoFormulaFields, GarbageFields, BackupFields, BomFields, OtherFields, LongNameFields,
     LongPathFields}

\* how the payload is wrapped:
\*   plain       <DataMashup>payload</DataMashup>
\*   attributes  an XML declaration, a start tag with the xmlns attribute, and
\*               the payload on lines of its own
\*   empty       <DataMashup></DataMashup>
\*   blank       <DataMashup> \r\n\t</DataMashup>
\*   selfClosing <DataMashup/>
\*   other       <Other>payload</Other>
\*   longerName  <DataMashupX>payload</DataMashupX>
\*   noXml       the empty text
\* and, for the damaged documents below:
\*   badLength         <DataMashup>the payload without its last character</DataMashup>
\*   badChar           <DataMashup>the payload with '*' for its first character</DataMashup>
\*   truncatedRoot     <DataMashup>base64 of the first 13 bytes of the stream</DataMashup>
\*   truncatedMetadata <DataMashup>base64 of the stream, its metadata block cut short</DataMashup>
\*   longerNameFirst   <DataMashupX>x</DataMashupX><DataMashup>payload</DataMashup>
Shapes == {"plain", "attributes", "empty", "blank", "selfClosing", "other", "longerName",
           "noXml"}

Inputs == {BaseFields} \cup FieldVariants
            \cup {[BaseFields EXCEPT !.shape = sh] : sh \in Shapes \ {"attributes"}}

\* documents whose payload or markup is damaged
DamagedShapes == {"badLength", "badChar", "truncatedRoot", "truncatedMetadata",
                  "longerNameFirst"}

DamagedInputs == {[BaseFields EXCEPT !.shape = sh] : sh \in DamagedShapes}

\* the stream of RootBytes with a metadata block that declares the length of
\* its XML and ends one byte before the XML does
TruncatedMetadataBytes(f) ==
    LET metadata == UInt32LE(f.metadataVersion)
                      \o UInt32LE(Len(f.metadataXml))
                      \o SubSeq(f.metadataXml, 1, Len(f.metadataXml) - 1)
    IN  UInt32LE(f.version)
          \o UInt32LE(Len(f.packageParts)) \o f.packageParts
          \o UInt32LE(Len(f.permissions)) \o f.permissions
          \o UInt32LE(Len(metadata)) \o metadata
          \o UInt32LE(Len(f.permissionBindings)) \o f.permissionBindings

XmlDeclaration == <<60, 63, 120, 109, 108, 32, 118, 101, 114, 115, 105, 111, 110, 61, 34, 49, 46, 48, 34, 32, 101, 110, 99, 111, 100, 105, 110, 103, 61, 34, 117, 116, 102, 45, 49, 54, 34, 63, 62>>
XmlnsAttribute == <<32, 120, 109, 108, 110, 115, 61, 34, 104, 116, 116, 112, 58, 47, 47, 115, 99, 104, 101, 109, 97, 115, 46, 109, 105, 99, 114, 111, 115, 111, 102, 116, 46, 99, 111, 109, 47, 68, 97, 116, 97, 77, 97, 115, 104, 117, 112, 34>>
BlankText == <<32, 13, 10, 9>>

\* <DataMashup>text</DataMashup>
WrapInDataMashup(text) == TagStart \o <<GreaterThan>> \o text \o TagEnd

XmlOf(f) ==
    LET payload == fromByteArray(RootBytes(f))
    IN  CASE f.shape = "plain" -> WrapInDataMashup(payload)
          [] f.shape = "attributes" ->
               XmlDeclaration \o TagStart \o XmlnsAttribute \o <<GreaterThan>>
                 \o <<13, 10, 32>> \o payload \o <<13, 10>> \o TagEnd
          [] f.shape = "empty" -> WrapInDataMashup(<<>>)
          [] f.shape = "blank" -> WrapInDataMashup(BlankText)
          [] f.shape = "selfClosing" -> TagStart \o <<47, GreaterThan>>
          [] f.shape = "other" -> <<60, 79, 116, 104, 101, 114, 62>> \o payload \o <<60, 47, 79, 116, 104, 101, 114, 62>>
          [] f.shape = "longerName" ->
               TagStart \o <<88, GreaterThan>> \o payload
                 \o <<60, 47, 68, 97, 116, 97, 77, 97, 115, 104, 117, 112, 88, 62>>
          [] f.shape = "noXml" -> <<>>
          [] f.shape = "badLength" -> WrapInDataMashup(SubSeq(payload, 1, Len(payload) - 1))
          [] f.shape = "badChar" -> WrapInDataMashup(<<42>> \o Tail(payload))
          [] f.shape = "truncatedRoot" ->
               WrapInDataMashup(fromByteArray(SubSeq(RootBytes(f), 1, 13)))
          [] f.shape = "truncatedMetadata" ->
               WrapInDataMashup(fromByteArray(TruncatedMetadataBytes(f)))
          [] f.shape = "longerNameFirst" ->
               TagStart \o <<88, GreaterThan, 120>>
                 \o <<60, 47, 68, 97, 116, 97, 77, 97, 115, 104, 117, 112, 88, 62>>
                 \o WrapInDataMashup(payload)

\* the texts given to setFormula: '' and a text with a two-byte character
Formulas == {<<>>, <<233, 89>>}

\* the two getFormulaFile of the repository
Impls == {"synthesize", "find"}

\* the two differ only on a package without a formula entry
ImplsFor(f) == IF f \in {NoFormulaFields, GarbageFields} THEN Impls ELSE {"synthesize"}


(***************************************************************************)
(* State.                                                                  *)
(***************************************************************************)
VARIABLES
    impl,          \* which getFormulaFile the build holds (an element of Impls)
    input,         \* the description of the document given to the first ParseXml
    xmlContent,    \* ParseXml's argument
    now,           \* the clock value zip last read
    pc,            \* where ParseXml is: "ParseXml", "unzipPackageParts", "unzipContent", "done"
    rootData,      \* ParseXml's rootData
    metadataData,  \* ParseXml's metadataData
    locals,        \* ParseXml's packageParts, permissions and metadataXml
    stream,        \* unzipData: the bytes the reader has still to deliver
    chunks,        \* unzipData: the chunks read so far
    outcome,       \* "pending", "Container", a ParseError, or "Thrown" (the promise rejected)
    result,        \* the Container (ParseResult)
    original,      \* the Container whose save() output is being parsed again
    parses,        \* calls of ParseXml so far
    saving,        \* the save() in flight
    saved,         \* what the calls of save() resolved with, in order
    calls,         \* the calls made so far, in order, with what they returned
    handle         \* the Package Wrapper's handle (UnzippedExcel) and what its save() gave

vars == <<impl, input, xmlContent, now, pc, rootData, metadataData, locals, stream, chunks,
          outcome, result, original, parses, saving, saved, calls, handle>>

NoContainer ==
    [version |-> 0, packageParts |-> <<>>, permissions |-> <<>>,
     metadata |-> [version |-> 0, metadata |-> <<>>, content |-> <<>>],
     permissionBindings |-> <<>>]

NoLocals == [packageParts |-> <<>>, permissions |-> <<>>, metadataXml |-> <<>>]

Idle == [pc |-> "idle", buffers |-> <<>>, zipped |-> <<>>, permissions |-> <<>>,
         permissionBindings |-> <<>>, metadataBuffers |-> <<>>, ops |-> 0]

Undefined == [defined |-> FALSE, data |-> [isString |-> FALSE, v |-> <<>>]]

\* no package was opened: ParseXml is called on a document directly
NoHandle ==
    [archive |-> <<>>, files |-> <<>>,
     datamashup |-> [present |-> FALSE, file |-> 0, encoding |-> "utf-8", xml |-> <<>>],
     outputs |-> <<>>]

Init ==
    /\ input \in Inputs
    /\ impl \in ImplsFor(input)
    /\ xmlContent = XmlOf(input)
    /\ now = 0
    /\ pc = "ParseXml"
    /\ rootData = NoRootData
    /\ metadataData = NoMetadataData
    /\ locals = NoLocals
    /\ stream = <<>>
    /\ chunks = <<>>
    /\ outcome = "pending"
    /\ result = NoContainer
    /\ original = NoContainer
    /\ parses = 1
    /\ saving = Idle
    /\ saved = <<>>
    /\ calls = <<>>
    /\ handle = NoHandle

(***************************************************************************)
(* ParseXml.                                                               *)
(***************************************************************************)
\* !value for a Buffer or a parsed object: an object is never falsy
IsFalsy(object) == FALSE

\* ParseXml ends: it returns a ParseError, or it throws and its promise rejects
Finish(how) ==
    /\ outcome' = how
    /\ pc' = "done"
    /\ UNCHANGED <<rootData, metadataData, locals, stream, chunks, result>>

\* a ParseXml that awaits the first unzipData with the root layout read only
\* as far as packageParts; SuspensionAtStageBoundaries tells it from the code's
ParseXmlLazy ==
    /\ pc = "ParseXml"
    /\ LET binaryString == ExtractDataMashupBinary(xmlContent)
           binaryBuffer == toByteArray(binaryString.text)
           root == ParserRoot(binaryBuffer.bytes)
       IN  IF ~binaryString.defined \/ binaryString.text = <<>>
             THEN Finish("DataMashupNotFound")
           ELSE IF binaryBuffer.threw THEN Finish("Thrown")
           ELSE IF IsFalsy(binaryBuffer) THEN Finish("Base64DecodeError")
           ELSE IF root.threw THEN Finish("Thrown")
           ELSE IF IsFalsy(root) THEN Finish("ParseRootError")
           ELSE /\ rootData' = [root EXCEPT !.permissions = <<>>, !.metadata = <<>>,
                                            !.permissionBindings = <<>>]
                /\ stream' = root.packageParts
                /\ chunks' = <<>>
                /\ pc' = "unzipPackageParts"
                /\ UNCHANGED <<metadataData, locals, outcome, result>>
    /\ UNCHANGED <<handle, impl, input, xmlContent, now, original, parses, saving, saved, calls>>

\* ParseXml(xmlContent), up to its first await: the tag, base64, the root layout
ParseXml ==
    /\ pc = "ParseXml"
    /\ LET binaryString == ExtractDataMashupBinary(xmlContent)
           binaryBuffer == toByteArray(binaryString.text)
           root == ParserRoot(binaryBuffer.bytes)
       IN  IF ~binaryString.defined \/ binaryString.text = <<>>
             THEN Finish("DataMashupNotFound")
           ELSE IF binaryBuffer.threw THEN Finish("Thrown")
           ELSE IF IsFalsy(binaryBuffer) THEN Finish("Base64DecodeError")
           ELSE IF root.threw THEN Finish("Thrown")
           ELSE IF IsFalsy(root) THEN Finish("ParseRootError")
           ELSE /\ rootData' = root
                /\ stream' = root.packageParts
                /\ chunks' = <<>>
                /\ pc' = "unzipPackageParts"
                /\ UNCHANGED <<metadataData, locals, outcome, result>>
    /\ UNCHANGED <<handle, impl, input, xmlContent, now, original, parses, saving, saved, calls>>

\* a processChunk that puts each chunk in front of the earlier ones;
\* UnzipDataDecodesOnce tells it from the code's
processChunkUnshift ==
    /\ pc \in {"unzipPackageParts", "unzipContent"}
    /\ stream # <<>>
    /\ chunks' = <<Head(stream)>> \o chunks
    /\ stream' = Tail(stream)
    /\ UNCHANGED <<handle, impl, input, xmlContent, now, pc, rootData, metadataData, locals,
                   outcome, result, original, parses, saving, saved, calls>>

\* processChunk({done: false, value}): one more chunk, and the next read
processChunk ==
    /\ pc \in {"unzipPackageParts", "unzipContent"}
    /\ stream # <<>>
    /\ chunks' = Append(chunks, Head(stream))
    /\ stream' = Tail(stream)
    /\ UNCHANGED <<handle, impl, input, xmlContent, now, pc, rootData, metadataData, locals,
                   outcome, result, original, parses, saving, saved, calls>>

\* processChunk({done: true}) of the first unzipData, and ParseXml from there
\* to its second await
ParseXmlPackageParts ==
    /\ pc = "unzipPackageParts"
    /\ stream = <<>>
    /\ LET packageItems == unzipChunks(chunks)
           packageParts == [k \in 1..Len(packageItems) |->
                              ConvertUnzippedItemXmlToString(packageItems[k])]
           permissions == DecoderDecode(rootData.permissions)
           metadata == ParserMetadata(rootData.metadata)
       IN  IF metadata.threw THEN Finish("Thrown")
           ELSE /\ metadataData' = metadata
                /\ locals' = [packageParts |-> packageParts, permissions |-> permissions,
                              metadataXml |-> DecoderDecode(metadata.metadataXml)]
                /\ stream' = metadata.content
                /\ chunks' = <<>>
                /\ pc' = "unzipContent"
                /\ UNCHANGED <<rootData, outcome, result>>
    /\ UNCHANGED <<handle, impl, input, xmlContent, now, original, parses, saving, saved, calls>>

\* processChunk({done: true}) of the second unzipData, and ParseXml to its return
ParseXmlContent ==
    /\ pc = "unzipContent"
    /\ stream = <<>>
    /\ result' = [version |-> rootData.version,
                  packageParts |-> locals.packageParts,
                  permissions |-> locals.permissions,
                  metadata |-> [version |-> metadataData.version,
                                metadata |-> locals.metadataXml,
                                content |-> unzipChunks(chunks)],
                  permissionBindings |-> rootData.permissionBindings]
    /\ outcome' = "Container"
    /\ pc' = "done"
    /\ chunks' = <<>>
    /\ UNCHANGED <<handle, impl, input, xmlContent, now, rootData, metadataData, locals, stream,
                   original, parses, saving, saved, calls>>

(***************************************************************************)
(* The Container's operations.                                             *)
(***************************************************************************)
\* ParseXml has returned the Container that the operations below are called on;
\* the Container of a second ParseXml (of a save() output) is only compared
HasContainer == pc = "done" /\ outcome = "Container" /\ parses = 1

IsOp(call) == call.op \in {"getFormula", "setFormula", "resetPermissions"}

\* the calls of getFormula, setFormula and resetPermissions so far
NumOps == Cardinality({k \in 1..Len(calls) : IsOp(calls[k])})

NumSaves == Cardinality({k \in 1..Len(calls) : calls[k].op = "save"})

Call(op, formula, returned) == [op |-> op, formula |-> formula, returned |-> returned]

\* the first item whose path includes 'Section1.m' (0: none)
FindFormulaFile(parts) ==
    LET hits == {k \in 1..Len(parts) : Includes(parts[k].path, FormulaSectionDefault)}
    IN  IF hits = {} THEN 0 ELSE CHOOSE k \in hits : \A o \in hits : k <= o

\* getFormulaFile of src/datamashup.ts: an item that is missing is pushed
getFormulaFileSynthesize(parts) ==
    IF FindFormulaFile(parts) # 0
    THEN [index |-> FindFormulaFile(parts), packageParts |-> parts]
    ELSE [index |-> Len(parts) + 1,
          packageParts |-> Append(parts, [path |-> FormulaSectionDefault, size |-> 0,
                                          type |-> "File",
                                          data |-> [isString |-> TRUE, v |-> <<>>]])]

\* getFormulaFile of the documented datamashup.ts: the item, or undefined
getFormulaFileFind(parts) == [index |-> FindFormulaFile(parts), packageParts |-> parts]

getFormulaFile(parts) ==
    IF impl = "synthesize" THEN getFormulaFileSynthesize(parts) ELSE getFormulaFileFind(parts)

\* result.getFormula()
getFormula ==
    /\ HasContainer
    /\ NumOps + NumSaves < MaxCalls
    /\ LET item == getFormulaFile(result.packageParts)
       IN  /\ result' = [result EXCEPT !.packageParts = item.packageParts]
           /\ calls' = Append(calls,
                 Call("getFormula", <<>>,
                      IF item.index = 0 THEN Undefined
                      ELSE [defined |-> TRUE, data |-> item.packageParts[item.index].data]))
    /\ UNCHANGED <<handle, impl, input, xmlContent, now, pc, rootData, metadataData, locals, stream,
                   chunks, outcome, original, parses, saving, saved>>

\* a setFormula that writes to the last item whose path includes 'Section1.m';
\* SetFormulaFrame tells it from the code's
SetFormulaLastMatch(parts, formula) ==
    LET item == getFormulaFile(parts)
        hits == {k \in 1..Len(item.packageParts) :
                   Includes(item.packageParts[k].path, FormulaSectionDefault)}
        last == CHOOSE k \in hits : \A o \in hits : k >= o
    IN  IF item.index = 0 THEN parts
        ELSE [item.packageParts EXCEPT
                ![last].size = Len(formula),
                ![last].data = [isString |-> TRUE, v |-> formula]]

\* the packageParts setFormula(formula) leaves
SetFormula(parts, formula) ==
    LET item == getFormulaFile(parts)
    IN  IF item.index = 0 THEN parts
        ELSE [item.packageParts EXCEPT
                ![item.index].size = Len(formula),
                ![item.index].data = [isString |-> TRUE, v |-> formula]]

\* a setFormula that also resets permissions, as the Package Wrapper's does;
\* SetFormulaKeepsPermissions tells it from the Container's
setFormulaAndReset(formula) ==
    /\ HasContainer
    /\ NumOps + NumSaves < MaxCalls
    /\ result' = [result EXCEPT !.packageParts = SetFormula(@, formula),
                                !.permissions = PermissionDefaults]
    /\ calls' = Append(calls, Call("setFormula", formula, Undefined))
    /\ UNCHANGED <<handle, impl, input, xmlContent, now, pc, rootData, metadataData, locals, stream,
                   chunks, outcome, original, parses, saving, saved>>

\* result.setFormula(formula)
setFormula(formula) ==
    /\ HasContainer
    /\ NumOps + NumSaves < MaxCalls
    /\ result' = [result EXCEPT !.packageParts = SetFormula(@, formula)]
    /\ calls' = Append(calls, Call("setFormula", formula, Undefined))
    /\ UNCHANGED <<handle, impl, input, xmlContent, now, pc, rootData, metadataData, locals, stream,
                   chunks, outcome, original, parses, saving, saved>>

\* a reset to the default with LF line endings; PermissionResetExactness tells
\* it from the code's
ResetPermissionsLF(container) ==
    [container EXCEPT !.permissions = SelectSeq(PermissionDefaults, LAMBDA c : c # 13)]

\* the Container resetPermissions() leaves
ResetPermissions(container) == [container EXCEPT !.permissions = PermissionDefaults]

\* result.resetPermissions()
resetPermissions ==
    /\ HasContainer
    /\ NumOps + NumSaves < MaxCalls
    /\ result' = ResetPermissions(result)
    /\ calls' = Append(calls, Call("resetPermissions", <<>>, Undefined))
    /\ UNCHANGED <<handle, impl, input, xmlContent, now, pc, rootData, metadataData, locals, stream,
                   chunks, outcome, original, parses, saving, saved>>

(***************************************************************************)
(* save().  zipItems builds its zippable, and fflate stamps the entries,   *)
(* when it is called; what it resolves with arrives later.                 *)
(***************************************************************************)
\* appendBufferInt32LE(buffers, value)
appendBufferInt32LE(buffers, value) == Append(buffers, UInt32LE(value))

\* appendBufferLE(buffers, buffer): the bytes, copied one by one
appendBufferLE(buffers, buffer) == Append(buffers, [i \in 1..Len(buffer) |-> buffer[i]])

\* appendBuffer(buffers, buffer)
appendBuffer(buffers, buffer) == Append(buffers, buffer)

\* an appendBufferLenLE that writes the length after the content;
\* EncodingLayout tells it from the code's
appendBufferLenLETrailing(parentBuffers, buffer) ==
    appendBufferInt32LE(appendBufferLE(parentBuffers, buffer), Len(buffer))

\* appendBufferLenLE(parentBuffers, buffer)
appendBufferLenLE(parentBuffers, buffer) ==
    appendBufferLE(appendBufferInt32LE(parentBuffers, Len(buffer)), buffer)

\* a Buffer.from(number[]) that keeps seven bits of each element;
\* PermissionBindingsPassThrough tells it from the code's
BufferFromArraySevenBits(array) == [i \in 1..Len(array) |-> array[i] % 128]

\* Buffer.from(number[]): each element modulo 256
BufferFromArray(array) == [i \in 1..Len(array) |-> array[i] % 256]

\* a save() whose zipItems keeps the bytes it packed as the payload of each
\* item; SaveLeavesContainer tells it from the code's
saveConverting ==
    /\ HasContainer
    /\ saving.pc = "idle"
    /\ NumOps + NumSaves < MaxCalls
    /\ \E t \in now..MaxClock :
         /\ now' = t
         /\ saving' = [pc |-> "zipPackageParts",
                       buffers |-> appendBufferInt32LE(<<>>, result.version),
                       zipped |-> zipItems(result.packageParts, t),
                       permissions |-> result.permissions,
                       permissionBindings |-> result.permissionBindings,
                       metadataBuffers |-> <<>>,
                       ops |-> NumOps]
    /\ result' = [result EXCEPT !.packageParts =
                    [k \in 1..Len(result.packageParts) |->
                        IF result.packageParts[k].data.isString
                        THEN [result.packageParts[k] EXCEPT
                                !.data = [isString |-> FALSE, v |-> BufferFromString(@.v)]]
                        ELSE result.packageParts[k]]]
    /\ calls' = Append(calls, Call("save", <<>>, Undefined))
    /\ UNCHANGED <<handle, impl, input, xmlContent, pc, rootData, metadataData, locals, stream,
                   chunks, outcome, original, parses, saved>>

\* save(), up to its first await: the fields are read and packageParts is zipped
save ==
    /\ HasContainer
    /\ saving.pc = "idle"
    /\ NumOps + NumSaves < MaxCalls
    /\ \E t \in now..MaxClock :
         /\ now' = t
         /\ saving' = [pc |-> "zipPackageParts",
                       buffers |-> appendBufferInt32LE(<<>>, result.version),
                       zipped |-> zipItems(result.packageParts, t),
                       permissions |-> result.permissions,
                       permissionBindings |-> result.permissionBindings,
                       metadataBuffers |-> <<>>,
                       ops |-> NumOps]
    /\ calls' = Append(calls, Call("save", <<>>, Undefined))
    /\ UNCHANGED <<handle, impl, input, xmlContent, pc, rootData, metadataData, locals, stream,
                   chunks, outcome, result, original, parses, saved>>

\* a save() that reads result.permissions when it appends it, after the await;
\* SaveSnapshot tells it from the code's
savePackagePartsLate ==
    /\ saving.pc = "zipPackageParts"
    /\ LET buffers == appendBufferLenLE(appendBufferLenLE(saving.buffers, saving.zipped),
                                        BufferFromString(result.permissions))
           metadataBuffers ==
               appendBufferLenLE(appendBufferInt32LE(<<>>, result.metadata.version),
                                 BufferFromString(result.metadata.metadata))
       IN  \E t \in now..MaxClock :
             /\ now' = t
             /\ saving' = [saving EXCEPT
                   !.pc = "zipContent",
                   !.buffers = buffers,
                   !.metadataBuffers = metadataBuffers,
                   !.zipped = zipItems(result.metadata.content, t)]
    /\ UNCHANGED <<handle, impl, input, xmlContent, pc, rootData, metadataData, locals, stream,
                   chunks, outcome, result, original, parses, saved, calls>>

\* save() from the zipped packageParts to the await in appendMetadataBufferLE:
\* permissions is appended, result.metadata is read and content is zipped
savePackageParts ==
    /\ saving.pc = "zipPackageParts"
    /\ LET buffers == appendBufferLenLE(appendBufferLenLE(saving.buffers, saving.zipped),
                                        BufferFromString(saving.permissions))
           metadataBuffers ==
               appendBufferLenLE(appendBufferInt32LE(<<>>, result.metadata.version),
                                 BufferFromString(result.metadata.metadata))
       IN  \E t \in now..MaxClock :
             /\ now' = t
             /\ saving' = [saving EXCEPT
                   !.pc = "zipContent",
                   !.buffers = buffers,
                   !.metadataBuffers = metadataBuffers,
                   !.zipped = zipItems(result.metadata.content, t)]
    /\ UNCHANGED <<handle, impl, input, xmlContent, pc, rootData, metadataData, locals, stream,
                   chunks, outcome, result, original, parses, saved, calls>>

\* the buffer save() encodes, from what it has appended and the zipped content
SaveBuffer(s) ==
    LET buffer == Concat(appendBufferLenLE(s.metadataBuffers, s.zipped))
        buffers == appendBuffer(appendBufferInt32LE(s.buffers, Len(buffer)), buffer)
    IN  Concat(appendBufferLenLE(buffers, BufferFromArray(s.permissionBindings)))

\* save() from the zipped content to its return
saveContent ==
    /\ saving.pc = "zipContent"
    /\ saved' = Append(saved, [text |-> fromByteArray(SaveBuffer(saving)),
                               parse |-> parses,
                               opsAtCall |-> saving.ops,
                               opsAtReturn |-> NumOps])
    /\ saving' = Idle
    /\ UNCHANGED <<handle, impl, input, xmlContent, now, pc, rootData, metadataData, locals, stream,
                   chunks, outcome, result, original, parses, calls>>

\* ParseXml is called on the save() output of a Container on which nothing
\* else was called, wrapped in a DataMashup element
ParseSaved ==
    /\ HasContainer
    /\ saving.pc = "idle"
    /\ Len(saved) = 1
    /\ Len(calls) = 1
    /\ original' = result
    /\ xmlContent' = WrapInDataMashup(saved[Len(saved)].text)
    /\ pc' = "ParseXml"
    /\ outcome' = "pending"
    /\ parses' = parses + 1
    /\ calls' = Append(calls, Call("ParseXml", <<>>, Undefined))
    /\ UNCHANGED <<handle, impl, input, now, rootData, metadataData, locals, stream, chunks, result,
                   saving, saved>>

Next ==
    \/ ParseXml
    \/ processChunk
    \/ ParseXmlPackageParts
    \/ ParseXmlContent
    \/ getFormula
    \/ \E formula \in Formulas : setFormula(formula)
    \/ resetPermissions
    \/ save
    \/ savePackageParts
    \/ saveContent
    \/ ParseSaved

Spec == Init /\ [][Next]_vars

(***************************************************************************)
(* ParseXml alone, on the documents above and on the damaged ones.         *)
(***************************************************************************)
InitParse ==
    /\ input \in Inputs \cup DamagedInputs
    /\ impl = "synthesize"
    /\ xmlContent = XmlOf(input)
    /\ now = 0
    /\ pc = "ParseXml"
    /\ rootData = NoRootData
    /\ metadataData = NoMetadataData
    /\ locals = NoLocals
    /\ stream = <<>>
    /\ chunks = <<>>
    /\ outcome = "pending"
    /\ result = NoContainer
    /\ original = NoContainer
    /\ parses = 1
    /\ saving = Idle
    /\ saved = <<>>
    /\ calls = <<>>
    /\ handle = NoHandle

NextParse ==
    \/ ParseXml
    \/ processChunk
    \/ ParseXmlPackageParts
    \/ ParseXmlContent

ParseSpec == InitParse /\ [][NextParse]_vars

(***************************************************************************)
(* The Package Wrapper (ExcelZip and the UnzippedExcel it resolves with).  *)
(* Its implementation is not among the repository's files: it is modelled  *)
(* from its documentation, on top of ParseXml and the Container above.     *)
(***************************************************************************)
\* DecoderUTF16LE.decode(bytes): TextDecoder('utf-16le'), which replaces an odd
\* last byte and unpaired surrogates by U+FFFD and removes one leading mark
DecodeUTF16LE(b) ==
    LET n == Len(b) \div 2
        units == [k \in 1..n |-> b[2 * k - 1] + 256 * b[2 * k]]
        all == IF Len(b) % 2 = 1 THEN Append(units, ReplacementChar) ELSE units
        Paired(k) ==
            IF IsLeadSurrogate(all[k])
            THEN k < Len(all) /\ IsSurrogate(all[k + 1]) /\ ~IsLeadSurrogate(all[k + 1])
            ELSE k > 1 /\ IsLeadSurrogate(all[k - 1])
        text == [k \in 1..Len(all) |->
                   IF IsSurrogate(all[k]) /\ ~Paired(k) THEN ReplacementChar ELSE all[k]]
    IN  IF text # <<>> /\ text[1] = ByteOrderMark THEN Tail(text) ELSE text

\* EncodeUTF16LE(str): two bytes per code unit, low byte first
EncodeUTF16LE(str) == Concat([k \in 1..Len(str) |-> <<str[k] % 256, str[k] \div 256>>])

\* 'customXml/'
CustomXmlFolder == <<99, 117, 115, 116, 111, 109, 88, 109, 108, 47>>

\* open: the first custom-XML entry whose content holds the start-tag marker,
\* in UTF-8 or in UTF-16LE, and its text
FindDataMashup(files) ==
    LET InUtf8(k) == Includes(files[k].data.v, TagStart)
        InUtf16(k) == Includes(files[k].data.v, EncodeUTF16LE(TagStart))
        hits == {k \in 1..Len(files) :
                   /\ StartsWithAt(files[k].path, CustomXmlFolder, 1)
                   /\ InUtf8(k) \/ InUtf16(k)}
        file == CHOOSE k \in hits : \A o \in hits : k <= o
    IN  IF hits = {}
        THEN [present |-> FALSE, file |-> 0, encoding |-> "utf-8", xml |-> <<>>]
        ELSE IF InUtf8(file)
        THEN [present |-> TRUE, file |-> file, encoding |-> "utf-8",
              xml |-> DecoderDecode(files[file].data.v)]
        ELSE [present |-> TRUE, file |-> file, encoding |-> "utf-16le",
              xml |-> DecodeUTF16LE(files[file].data.v)]

\* ExcelZip(archive), up to its call of ParseXml
ExcelZip(archive) ==
    LET files == unzipChunks(archive)
    IN  [archive |-> archive, files |-> files, datamashup |-> FindDataMashup(files),
         outputs |-> <<>>]

\* the text result.save() resolves with when nothing is called during it and
\* zip reads the clock value `stamp` both times
ContainerSave(container, stamp) ==
    LET buffers ==
            appendBufferLenLE(
                appendBufferLenLE(appendBufferInt32LE(<<>>, container.version),
                                  zipItems(container.packageParts, stamp)),
                BufferFromString(container.permissions))
        metadataBuffers ==
            appendBufferLenLE(appendBufferInt32LE(<<>>, container.metadata.version),
                              BufferFromString(container.metadata.metadata))
    IN  fromByteArray(SaveBuffer([buffers |-> buffers,
                                  metadataBuffers |-> metadataBuffers,
                                  zipped |-> zipItems(container.metadata.content, stamp),
                                  permissionBindings |-> container.permissionBindings]))

\* the custom-XML text with `text` for the body of its DataMashup element,
\* the markup around the body kept as it is
SpliceDataMashup(xml, text) ==
    LET Open(at) == IndexOfFrom(xml, <<GreaterThan>>, at + Len(TagStart))
        Close(at) == IndexOfFrom(xml, TagEnd, Open(at) + 1)
        starts == {at \in 1..Len(xml) :
                     /\ StartsWithAt(xml, TagStart, at)
                     /\ Open(at) # 0
                     /\ Close(at) # 0}
        first == CHOOSE at \in starts : \A o \in starts : at <= o
    IN  IF starts = {} THEN xml
        ELSE SubSeq(xml, 1, Open(first)) \o text \o SubSeq(xml, Close(first), Len(xml))

\* a wrapper getFormula that asks the Container whatever the parse gave;
\* WrapperWithoutContainer tells it from the documented one
UnzippedExcelGetFormulaUnguarded(parsed, container) ==
    LET item == getFormulaFileSynthesize(container.packageParts)
    IN  [container |-> [container EXCEPT !.packageParts = item.packageParts],
         returned |-> [defined |-> TRUE, data |-> item.packageParts[item.index].data]]

\* excelZip.getFormula(): the Container's getFormula() when the parse gave a
\* Container, undefined otherwise
UnzippedExcelGetFormula(parsed, container) ==
    IF ~parsed THEN [container |-> container, returned |-> Undefined]
    ELSE LET item == getFormulaFile(container.packageParts)
         IN  [container |-> [container EXCEPT !.packageParts = item.packageParts],
              returned |-> IF item.index = 0 THEN Undefined
                           ELSE [defined |-> TRUE,
                                 data |-> item.packageParts[item.index].data]]

\* a wrapper setFormula that leaves the permissions to its caller;
\* WrapperResetOnEdit tells it from the documented one
UnzippedExcelSetFormulaOnly(parsed, container, formula) ==
    IF ~parsed THEN container
    ELSE [container EXCEPT !.packageParts = SetFormula(@, formula)]

\* excelZip.setFormula(formula): the Container's setFormula and then its
\* resetPermissions when the parse gave a Container, nothing otherwise
UnzippedExcelSetFormula(parsed, container, formula) ==
    IF ~parsed THEN container
    ELSE ResetPermissions([container EXCEPT !.packageParts = SetFormula(@, formula)])

\* the custom-XML entry with the Container's save() text spliced in, in the
\* encoding it was found in
SplicedFiles(h, text) ==
    LET xml == SpliceDataMashup(h.datamashup.xml, text)
        data == IF h.datamashup.encoding = "utf-8" THEN BufferFromString(xml)
                ELSE EncodeUTF16LE(xml)
    IN  [k \in 1..Len(h.files) |->
            IF k = h.datamashup.file
            THEN [h.files[k] EXCEPT !.size = Len(data),
                                    !.data = [isString |-> FALSE, v |-> data]]
            ELSE h.files[k]]

\* a wrapper save that splices whenever a custom-XML entry was found, parsed
\* or not; RepackWithoutPowerQuery tells it from the documented one
UnzippedExcelSaveFilesSplicing(h, parsed, text) ==
    IF ~h.datamashup.present THEN h.files ELSE SplicedFiles(h, text)

\* excelZip.save(): the entries it packs, `text` being what the Container's
\* save() gave
UnzippedExcelSaveFiles(h, parsed, text) ==
    IF ~parsed THEN h.files ELSE SplicedFiles(h, text)

\* the spreadsheet packages: a custom-XML part with the document of `f`, in
\* UTF-8 or in UTF-16LE, between two other parts
PathCustomXml == CustomXmlFolder \o <<105, 116, 101, 109, 49, 46, 120, 109, 108>>
PathWorkbook == <<120, 108, 47, 119, 46, 98, 105, 110>>

PackageOf(f, encoding) ==
    ZipArchive(<<File(PathContentTypes, <<60, 84, 47, 62>>),
                 File(PathCustomXml, IF encoding = "utf-8" THEN BufferFromString(XmlOf(f))
                                     ELSE EncodeUTF16LE(XmlOf(f))),
                 File(PathWorkbook, <<1, 255>>)>>, 0)

\* a Power Query in each encoding, a package without one, and one whose
\* DataMashup element is blank
Packages ==
    {<<BaseFields, "utf-8">>, <<OtherFields, "utf-16le">>,
     <<[BaseFields EXCEPT !.shape = "other"], "utf-8">>,
     <<[BaseFields EXCEPT !.shape = "blank"], "utf-16le">>}

\* ExcelZip has unpacked a package and is about to call ParseXml, when it
\* found a custom-XML part to parse
InitWrapper ==
    \E p \in Packages :
        /\ input = p[1]
        /\ handle = ExcelZip(PackageOf(p[1], p[2]))
        /\ impl = "synthesize"
        /\ xmlContent = handle.datamashup.xml
        /\ now = 0
        /\ pc = IF handle.datamashup.present THEN "ParseXml" ELSE "done"
        /\ rootData = NoRootData
        /\ metadataData = NoMetadataData
        /\ locals = NoLocals
        /\ stream = <<>>
        /\ chunks = <<>>
        /\ outcome = IF handle.datamashup.present THEN "pending" ELSE "NoDataMashup"
        /\ result = NoContainer
        /\ original = NoContainer
        /\ parses = 1
        /\ saving = Idle
        /\ saved = <<>>
        /\ calls = <<>>

\* ExcelZip has resolved; its datamashup has a result, not an error
Opened == pc = "done"
Parsed == pc = "done" /\ outcome = "Container"

\* excelZip.getFormula()
excelZipGetFormula ==
    /\ Opened
    /\ Len(calls) < MaxCalls
    /\ LET got == UnzippedExcelGetFormula(Parsed, result)
       IN  /\ result' = got.container
           /\ calls' = Append(calls, Call("getFormula", <<>>, got.returned))
    /\ UNCHANGED <<handle, impl, input, xmlContent, now, pc, rootData, metadataData, locals,
                   stream, chunks, outcome, original, parses, saving, saved>>

\* excelZip.setFormula(formula)
excelZipSetFormula(formula) ==
    /\ Opened
    /\ Len(calls) < MaxCalls
    /\ result' = UnzippedExcelSetFormula(Parsed, result, formula)
    /\ calls' = Append(calls, Call("setFormula", formula, Undefined))
    /\ UNCHANGED <<handle, impl, input, xmlContent, now, pc, rootData, metadataData, locals,
                   stream, chunks, outcome, original, parses, saving, saved>>

\* excelZip.save(), from its call to the buffer it resolves with
excelZipSave ==
    /\ Opened
    /\ Len(calls) < MaxCalls
    /\ \E t \in now..MaxClock :
         /\ now' = t
         /\ LET files == UnzippedExcelSaveFiles(handle, Parsed, ContainerSave(result, t))
            IN  handle' = [handle EXCEPT !.files = files,
                                         !.outputs = Append(@, zipItems(files, t))]
    /\ calls' = Append(calls, Call("save", <<>>, Undefined))
    /\ UNCHANGED <<impl, input, xmlContent, pc, rootData, metadataData, locals, stream, chunks,
                   outcome, result, original, parses, saving, saved>>

NextWrapper ==
    \/ ParseXml
    \/ processChunk
    \/ ParseXmlPackageParts
    \/ ParseXmlContent
    \/ excelZipGetFormula
    \/ \E formula \in Formulas : excelZipSetFormula(formula)
    \/ excelZipSave

WrapperSpec == InitWrapper /\ [][NextWrapper]_vars

(***************************************************************************)
(* Properties.                                                             *)
(***************************************************************************)
LastCall == calls[Len(calls)]

\* this step is a call of op
Calls(op) == Len(calls') = Len(calls) + 1 /\ calls'[Len(calls')].op = op

\* what getFormula() returns when it returns the text X
ReturnedText(X) == [defined |-> TRUE, data |-> [isString |-> TRUE, v |-> X]]

\* a call of save() has just returned, and nothing was called since: its
\* output is the last of saved (every call of save() returns to such a state)
SaveReturned ==
    /\ saved # <<>>
    /\ saving.pc = "idle"
    /\ parses = 1
    /\ saved[Len(saved)].opsAtReturn = NumOps

\* the bytes of the last save() output, and their root layout
SavedBuffer == toByteArray(saved[Len(saved)].text).bytes
SavedRoot == ParserRoot(SavedBuffer)

\* the place in calls of the k-th call of save()
SaveCall(k) ==
    CHOOSE j \in 1..Len(calls) :
        /\ calls[j].op = "save"
        /\ Cardinality({i \in 1..j : calls[i].op = "save"}) = k

\* resetPermissions() was called before the k-th save()
ResetBeforeSave(k) == \E i \in 1..(SaveCall(k) - 1) : calls[i].op = "resetPermissions"

PathsAndPayloads(items) == {<<items[k].path, items[k].data>> : k \in 1..Len(items)}

\* what the document given to the first ParseXml holds
HasDataMashupElement(f) == f.shape \in {"plain", "attributes", "empty", "blank", "selfClosing"}
HasBody(f) == f.shape \in {"plain", "attributes"}

\* C1: a Container on which no mutation was made, saved, wrapped in a
\* DataMashup element and parsed again, gives a Container with the same
\* version, permissions, metadata version and metadata text, and the same
\* (path, payload) pairs in packageParts and in metadata.content
RoundTripIdentity ==
    (parses = 2 /\ pc = "done") =>
        /\ outcome = "Container"
        /\ result.version = original.version
        /\ result.permissions = original.permissions
        /\ result.metadata.version = original.metadata.version
        /\ result.metadata.metadata = original.metadata.metadata
        /\ PathsAndPayloads(result.packageParts) = PathsAndPayloads(original.packageParts)
        /\ PathsAndPayloads(result.metadata.content)
             = PathsAndPayloads(original.metadata.content)

\* C2: two consecutive calls of save() with no call of getFormula, setFormula
\* or resetPermissions from the first call to the second return give the same
\* base64 text
IdempotentSave ==
    \A k \in 1..(Len(saved) - 1) :
        saved[k + 1].opsAtReturn = saved[k].opsAtCall => saved[k + 1].text = saved[k].text

\* C3: when no operation was called on the Container, the permissions bytes,
\* the metadata XML bytes and the permissionBindings bytes in the buffer
\* save() produces are the bytes of those fields in the buffer that was parsed
UntouchedFieldsSurvive ==
    (SaveReturned /\ saved[Len(saved)].opsAtReturn = 0) =>
        LET root == SavedRoot
        IN  /\ ~root.threw
            /\ root.permissions = input.permissions
            /\ ParserMetadata(root.metadata).metadataXml = input.metadataXml
            /\ root.permissionBindings = input.permissionBindings

\* C4: getFormula() called immediately after setFormula(X) returns X, on any
\* Container and for every text X
FormulaWriteThenRead ==
    \A k \in 1..(Len(calls) - 1) :
        (calls[k].op = "setFormula" /\ calls[k + 1].op = "getFormula") =>
            calls[k + 1].returned = ReturnedText(calls[k].formula)

\* C5: when no entry of packageParts has a path containing 'Section1.m',
\* setFormula(Y) adds one File entry, with the path 'Section1.m' and the
\* payload Y, after the entries there were
SynthesisOnMissingFormula ==
    [][(Calls("setFormula") /\ FindFormulaFile(result.packageParts) = 0) =>
          LET old == result.packageParts
              new == result'.packageParts
          IN  /\ Len(new) = Len(old) + 1
              /\ SubSeq(new, 1, Len(old)) = old
              /\ new[Len(new)].path = FormulaSectionDefault
              /\ new[Len(new)].type = "File"
              /\ new[Len(new)].data = ReturnedText(calls'[Len(calls')].formula).data]_vars

\* C6: when no entry of packageParts has a path containing 'Section1.m',
\* getFormula() returns undefined and leaves packageParts as it was
GetFormulaIsReadOnly ==
    [][(Calls("getFormula") /\ FindFormulaFile(result.packageParts) = 0) =>
          /\ calls'[Len(calls')].returned = Undefined
          /\ result'.packageParts = result.packageParts]_vars

\* C7: after resetPermissions() the Container's permissions is the default
\* constant, with CRLF line endings and tab indentation, and a save() called
\* after it writes the UTF-8 encoding of that constant as the permissions field
PermissionResetExactness ==
    /\ (calls # <<>> /\ LastCall.op = "resetPermissions") =>
          /\ result.permissions = PermissionDefaults
          /\ Includes(result.permissions, <<63, 62, 13, 10, 60>>)
          /\ Includes(result.permissions, <<62, 13, 10, 9, 60>>)
    /\ (SaveReturned /\ ResetBeforeSave(Len(saved))) =>
          SavedRoot.permissions = BufferFromString(PermissionDefaults)

\* a save() that was called after resetPermissions() on a Container parsed
\* with other permissions has returned
ResetThenSaved ==
    /\ SaveReturned
    /\ ResetBeforeSave(Len(saved))
    /\ locals.permissions # PermissionDefaults

\* C8: setFormula(text) leaves the Container's permissions as it was, and the
\* permissions of a Container changes only in a call of resetPermissions()
SetFormulaKeepsPermissions ==
    [][/\ Calls("setFormula") => result'.permissions = result.permissions
       /\ (HasContainer /\ HasContainer' /\ result'.permissions # result.permissions)
            => Calls("resetPermissions")]_vars

\* setFormula was just called with a text that changed the formula entry, on a
\* Container whose permissions is not the default
FormulaSetPermissionsKept ==
    /\ calls # <<>>
    /\ LastCall.op = "setFormula"
    /\ result.packageParts # locals.packageParts
    /\ result.permissions # PermissionDefaults

\* C9: the permissionBindings of the Container are the bytes decoded from the
\* input, and every save() output ends with their length prefix and those
\* bytes, whatever calls were made
PermissionBindingsPassThrough ==
    /\ (pc = "done" /\ outcome = "Container") =>
          result.permissionBindings = input.permissionBindings
    /\ SaveReturned =>
          LET buffer == SavedBuffer
              root == ParserRoot(buffer)
              bindings == input.permissionBindings
          IN  /\ ~root.threw
              /\ root.permissionBindings = bindings
              /\ SubSeq(buffer, Len(buffer) - Len(bindings) - 3, Len(buffer))
                   = UInt32LE(Len(bindings)) \o bindings

\* a save() called after setFormula or resetPermissions has returned, on a
\* Container that has permission bindings
SavedBindingsAfterCalls ==
    /\ SaveReturned
    /\ input.permissionBindings # <<>>
    /\ \E i \in 1..(SaveCall(Len(saved)) - 1) :
          calls[i].op \in {"setFormula", "resetPermissions"}

MalformedBase64Detection ==
    (pc = "done" /\ input.shape \in {"badLength", "badChar"}) =>
        /\ outcome = "Base64DecodeError"
        /\ result = NoContainer

\* C12: when the decoded root buffer is shorter than its declared lengths
\* demand, ParseXml returns ParseRootError
TruncatedBufferDetection ==
    (pc = "done" /\ input.shape = "truncatedRoot") =>
        /\ outcome = "ParseRootError"
        /\ result = NoContainer

\* C13: ParseXml completes with a Container or one of the three typed errors
\* and never throws, also when the metadata block is shorter than its own
\* declared lengths demand
EveryFailureIsAValue ==
    pc = "done" =>
        outcome \in {"Container", "DataMashupNotFound", "Base64DecodeError", "ParseRootError"}

PackedBytes(item) == IF item.data.isString THEN BufferFromString(item.data.v) ELSE item.data.v

\* C15: in every state of a Container, after the parse and after any calls of
\* setFormula, each entry's size is the byte length of its payload as it is
\* encoded for packing
EntrySizeInvariant ==
    (pc = "done" /\ outcome = "Container") =>
        /\ \A k \in 1..Len(result.packageParts) :
              result.packageParts[k].size = Len(PackedBytes(result.packageParts[k]))
        /\ \A k \in 1..Len(result.metadata.content) :
              result.metadata.content[k].size = Len(PackedBytes(result.metadata.content[k]))

\* the path of an entry ends in `.xml` or `.m`
HasTextSuffix(path) == EndsWith(path, DotXml) \/ EndsWith(path, DotM)

\* C16: after a successful parse, every packageParts entry whose path ends in
\* `.xml` or `.m` has the UTF-8 decoding of its bytes as payload, a text, and
\* every other entry has its raw bytes; path, kind and size are as unpacked
PackagePartsTextNormalization ==
    (pc = "done" /\ outcome = "Container" /\ calls = <<>>) =>
        LET unpacked == unzipChunks(rootData.packageParts)
        IN  /\ Len(result.packageParts) = Len(unpacked)
            /\ \A k \in 1..Len(unpacked) :
                  LET item == result.packageParts[k]
                  IN  /\ item.path = unpacked[k].path
                      /\ item.type = unpacked[k].type
                      /\ item.size = unpacked[k].size
                      /\ item.data = IF HasTextSuffix(item.path)
                                     THEN [isString |-> TRUE,
                                           v |-> BufferToString(unpacked[k].data.v)]
                                     ELSE [isString |-> FALSE, v |-> unpacked[k].data.v]

\* a parse has returned packageParts with a `.m` entry, a text, next to an
\* entry of another suffix, raw bytes
TextAndRawPackageParts ==
    /\ pc = "done" /\ outcome = "Container" /\ calls = <<>>
    /\ \E k \in 1..Len(result.packageParts) :
          EndsWith(result.packageParts[k].path, DotM) /\ result.packageParts[k].data.isString
    /\ \E k \in 1..Len(result.packageParts) :
          ~HasTextSuffix(result.packageParts[k].path) /\ ~result.packageParts[k].data.isString

\* C17: after a successful parse, the entries of metadata.content obey the
\* rule of packageParts: an entry whose path ends in `.xml` or `.m` has a text
\* payload, every other entry has raw bytes
MetadataContentTextNormalization ==
    (pc = "done" /\ outcome = "Container" /\ calls = <<>>) =>
        \A k \in 1..Len(result.metadata.content) :
            result.metadata.content[k].data.isString
                = HasTextSuffix(result.metadata.content[k].path)

\* zip reports an error for these items
ZipFails(items) == \E k \in 1..Len(items) : NameTooLong(items[k].path)

\* C18: when unzip reports an error, unzipData resolves with no entries and
\* ParseXml still returns a Container, whose packageParts or metadata.content
\* is empty; when zip reports an error, zipItems resolves with an empty buffer
\* and save() still returns base64 text, in which the length prefix of that
\* archive is zero
ArchiveFailureRecovery ==
    /\ (pc = "done" /\ parses = 1 /\ ~rootData.threw /\ ~metadataData.threw) =>
          /\ outcome = "Container"
          /\ calls = <<>> =>
                /\ Unzip(rootData.packageParts).err => result.packageParts = <<>>
                /\ Unzip(metadataData.content).err => result.metadata.content = <<>>
    /\ (SaveReturned /\ ZipFails(result.metadata.content)) =>
          LET text == toByteArray(saved[Len(saved)].text)
              root == ParserRoot(text.bytes)
              xml == ReadLengthPrefixed(root.metadata, 5)
          IN  /\ ~text.threw
              /\ ~root.threw
              /\ ~xml.threw
              /\ SubSeq(root.metadata, xml.next, Len(root.metadata)) = UInt32LE(0)

\* save() has returned on a Container whose packageParts could not be unpacked
\* and whose metadata.content cannot be packed
SavedDespiteArchiveFailures ==
    /\ SaveReturned
    /\ Unzip(rootData.packageParts).err
    /\ result.metadata.content # <<>>
    /\ ZipFails(result.metadata.content)

\* C19: an archive that unzipData unpacks into entries, packed again by
\* zipItems at once, is unpacked by unzipData into the same paths with the
\* same payload bytes and sizes (the metadata content archive goes this way
\* through ParseXml, save() and ParseXml, no operation touching it)
ArchiveFidelity ==
    (parses = 2 /\ pc = "done" /\ outcome = "Container" /\ ~Unzip(input.content).err) =>
        /\ original.metadata.content = unzipChunks(input.content)
        /\ result.metadata.content = original.metadata.content

\* the documents with an element named DataMashup that has a start tag and an
\* end tag, and the text between the two, trimmed
HasTaggedElement(f) ==
    f.shape \in {"plain", "attributes", "empty", "blank", "longerNameFirst"}

ElementBody(f) ==
    IF f.shape \in {"empty", "blank"} THEN <<>> ELSE fromByteArray(RootBytes(f))

\* C20: for a text that contains an element named DataMashup, with or without
\* attributes, the extractor returns the text between that element's start
\* tag and its end tag without the surrounding whitespace, also when the body
\* is on lines of its own; an element whose name only begins with DataMashup
\* is not taken for it
TagExtraction ==
    LET binaryString == ExtractDataMashupBinary(XmlOf(input))
    IN  /\ HasTaggedElement(input) =>
              binaryString = [defined |-> TRUE, text |-> ElementBody(input)]
        /\ input.shape = "longerName" => ~binaryString.defined


\* the custom-XML text of the package the last excelZip.save() gave, and the
\* root layout inside it
PackagedXml ==
    LET files == unzipChunks(handle.outputs[Len(handle.outputs)])
        data == files[handle.datamashup.file].data.v
    IN  IF handle.datamashup.encoding = "utf-8" THEN DecoderDecode(data)
        ELSE DecodeUTF16LE(data)
PackagedRoot == ParserRoot(toByteArray(ExtractDataMashupBinary(PackagedXml).text).bytes)

\* excelZip.setFormula was called before the last call
SetFormulaBeforeLast == \E i \in 1..(Len(calls) - 1) : calls[i].op = "setFormula"

\* C21: once excelZip.setFormula has returned on a package whose Power Query
\* parsed, the Container's permissions is the default permissions XML, and the
\* permissions in the package a later excelZip.save() gives is that XML
WrapperResetOnEdit ==
    (Parsed /\ calls # <<>>) =>
        /\ LastCall.op = "setFormula" => result.permissions = PermissionDefaults
        /\ (LastCall.op = "save" /\ SetFormulaBeforeLast) =>
              /\ handle.outputs # <<>>
              /\ ~PackagedRoot.threw
              /\ PackagedRoot.permissions = BufferFromString(PermissionDefaults)

\* excelZip.save() has returned after excelZip.setFormula, on a package whose
\* Power Query was parsed with other permissions
WrapperSavedAfterEdit ==
    /\ Parsed
    /\ calls # <<>>
    /\ LastCall.op = "save"
    /\ SetFormulaBeforeLast
    /\ locals.permissions # PermissionDefaults
    /\ handle.outputs # <<>>


\* C22: on a package whose Power Query was not found, or did not parse,
\* excelZip.getFormula() returns undefined and excelZip.setFormula leaves
\* the entries of the package as they were unpacked; there is no Container
\* either call could have failed on
WrapperWithoutContainer ==
    (Opened /\ ~Parsed) =>
        /\ \A k \in 1..Len(calls) :
              calls[k].op = "getFormula" => calls[k].returned = Undefined
        /\ handle.files = unzipChunks(handle.archive)
        /\ result = NoContainer

\* getFormula and setFormula were both called on a package whose DataMashup
\* element did not parse
CalledWithoutContainer ==
    /\ Opened
    /\ outcome \notin {"Container", "NoDataMashup"}
    /\ handle.datamashup.present
    /\ \E i, j \in 1..Len(calls) : calls[i].op = "getFormula" /\ calls[j].op = "setFormula"


\* C23: on a package whose Power Query was not found, or did not parse,
\* every excelZip.save() packs the entries that were unpacked at open, paths
\* and payloads, whatever getFormula and setFormula calls came before it
RepackWithoutPowerQuery ==
    (Opened /\ ~Parsed) =>
        \A k \in 1..Len(handle.outputs) :
            LET packed == unzipChunks(handle.outputs[k])
                opened == unzipChunks(handle.archive)
            IN  /\ Len(packed) = Len(opened)
                /\ \A i \in 1..Len(opened) :
                      /\ packed[i].path = opened[i].path
                      /\ packed[i].data = opened[i].data

\* excelZip.save() has returned after a getFormula or setFormula call, on a
\* package whose DataMashup element did not parse
RepackedAfterCalls ==
    /\ Opened
    /\ ~Parsed
    /\ handle.datamashup.present
    /\ handle.outputs # <<>>
    /\ calls[1].op \in {"getFormula", "setFormula"}


\* the bytes the running unzipData was given
UnzipDataInput ==
    IF pc = "unzipPackageParts" THEN rootData.packageParts ELSE metadataData.content

\* C24: unzipData hands the bytes to the ZIP decoder once, in the step that
\* follows the reader's done: until then every step appends the next chunk,
\* the chunks read and the bytes not yet read being the input in its order,
\* and what is decoded then is exactly the input
UnzipDataDecodesOnce ==
    [][(pc \in {"unzipPackageParts", "unzipContent"}) =>
          (/\ chunks \o stream = UnzipDataInput
           /\ (pc' = pc) =>
                 (/\ stream # <<>>
                  /\ chunks' = Append(chunks, Head(stream))
                  /\ stream' = Tail(stream)
                  /\ UNCHANGED <<locals, result, outcome>>)
           /\ (pc' # pc) =>
                 (/\ stream = <<>>
                  /\ chunks = UnzipDataInput
                  /\ (pc' = "unzipContent") =>
                        (locals'.packageParts =
                            [k \in 1..Len(unzipChunks(UnzipDataInput)) |->
                                ConvertUnzippedItemXmlToString(unzipChunks(UnzipDataInput)[k])])
                  /\ (pc' = "done" /\ outcome' = "Container") =>
                        (result'.metadata.content = unzipChunks(UnzipDataInput))))]_vars

\* the reader of the second unzipData has reported done after some chunks:
\* the archive of the metadata is about to be decoded
ReaderDone ==
    /\ pc = "unzipContent"
    /\ stream = <<>>
    /\ Len(chunks) > 1
    /\ Len(unzipChunks(chunks)) > 0


\* the root layout of the document ParseXml was given
DecodedRoot == ParserRoot(toByteArray(ExtractDataMashupBinary(xmlContent).text).bytes)

\* C25: wherever ParseXml or save() is suspended, every field it has come to
\* is decoded or appended whole.  ParseXml awaits the unpacking of
\* packageParts with the whole root layout decoded and nothing of the
\* metadata, and the unpacking of the content with the whole metadata layout
\* decoded; save() awaits the packing of packageParts with the version
\* appended, and the packing of the content with version, packageParts and
\* permissions appended, each with its length, and the metadata fields ready
SuspensionAtStageBoundaries ==
    /\ pc \in {"ParseXml", "unzipPackageParts", "unzipContent", "done"}
    /\ saving.pc \in {"idle", "zipPackageParts", "zipContent"}
    /\ (pc = "ParseXml" /\ parses = 1) =>
          (rootData = NoRootData /\ metadataData = NoMetadataData)
    /\ (pc \in {"unzipPackageParts", "unzipContent"}) =>
          (~rootData.threw /\ rootData = DecodedRoot)
    /\ (pc = "unzipPackageParts" /\ parses = 1) =>
          (metadataData = NoMetadataData /\ locals = NoLocals)
    /\ (pc = "unzipContent") =>
          (~metadataData.threw /\ metadataData = ParserMetadata(rootData.metadata))
    /\ (saving.pc = "zipPackageParts") =>
          (/\ saving.buffers = <<UInt32LE(result.version)>>
           /\ saving.metadataBuffers = <<>>)
    /\ (saving.pc = "zipContent") =>
          (/\ Len(saving.buffers) = 5
           /\ saving.buffers[1] = UInt32LE(result.version)
           /\ saving.buffers[2] = UInt32LE(Len(saving.buffers[3]))
           /\ saving.buffers[4] = UInt32LE(Len(saving.buffers[5]))
           /\ saving.buffers[5] = BufferFromString(saving.permissions)
           /\ Len(saving.metadataBuffers) = 3
           /\ saving.metadataBuffers[1] = UInt32LE(result.metadata.version)
           /\ saving.metadataBuffers[2] = UInt32LE(Len(saving.metadataBuffers[3]))
           /\ saving.metadataBuffers[3] = BufferFromString(result.metadata.metadata))

\* save() is suspended on the packing of the content, and an operation was
\* called on the Container since save() was called
CalledWhileSaving ==
    /\ saving.pc = "zipContent"
    /\ NumOps > saving.ops


\* C26: no step of save(), from its call to its return, changes the
\* Container: version, packageParts with the form of every payload,
\* permissions, metadata and permissionBindings are what they were, so that
\* save() can be called again
SaveLeavesContainer ==
    [][(saving' # saving) => (result' = result)]_vars

\* a second save() has returned on a Container that has text payloads, and
\* nothing else was called
SavedTwice ==
    /\ Len(saved) = 2
    /\ saving.pc = "idle"
    /\ NumOps = 0
    /\ \E k \in 1..Len(result.packageParts) : result.packageParts[k].data.isString
    /\ result.metadata.content # <<>>


PathsDistinct(items) ==
    \A i, j \in 1..Len(items) : items[i].path = items[j].path => i = j

\* only getFormula and setFormula were called on the Container
OnlyFormulaCalls ==
    HasContainer /\ \A k \in 1..Len(calls) : calls[k].op \in {"getFormula", "setFormula"}

\* the paths stay pairwise distinct, and at most one entry is added to those
\* of the parse
PathUniquenessKept ==
    (OnlyFormulaCalls /\ PathsDistinct(locals.packageParts)) =>
        /\ PathsDistinct(result.packageParts)
        /\ Len(result.packageParts) <= Len(locals.packageParts) + 1
        /\ SubSeq(result.packageParts, 1, Len(locals.packageParts))
              = [k \in 1..Len(locals.packageParts) |->
                    IF k = FindFormulaFile(locals.packageParts) THEN result.packageParts[k]
                    ELSE locals.packageParts[k]]

\* C27: the paths of packageParts, pairwise distinct after the parse, stay
\* so after any getFormula and setFormula calls, at most one entry is added,
\* and the archive zipItems packs holds every entry of packageParts
PathUniquenessPreserved ==
    (OnlyFormulaCalls /\ PathsDistinct(locals.packageParts)) =>
        /\ PathUniquenessKept
        /\ \A t \in 0..MaxClock :
              LET packed == unzipChunks(zipItems(result.packageParts, t))
              IN  /\ Len(packed) = Len(result.packageParts)
                  /\ \A k \in 1..Len(packed) : packed[k].path = result.packageParts[k].path


\* C28: setFormula(text) on packageParts that has an item whose path includes
\* 'Section1.m' gives the first such item the text as its payload and leaves
\* its path and type; the number and the order of the items, every other
\* item, version, metadata and permissionBindings are as before
SetFormulaFrame ==
    [][(Calls("setFormula") /\ FindFormulaFile(result.packageParts) # 0) =>
          LET first == FindFormulaFile(result.packageParts)
              text == calls'[Len(calls')].formula
          IN  /\ Len(result'.packageParts) = Len(result.packageParts)
              /\ \A k \in 1..Len(result.packageParts) :
                    IF k = first
                    THEN /\ result'.packageParts[k].path = result.packageParts[k].path
                         /\ result'.packageParts[k].type = result.packageParts[k].type
                         /\ result'.packageParts[k].data = [isString |-> TRUE, v |-> text]
                    ELSE result'.packageParts[k] = result.packageParts[k]
              /\ result'.version = result.version
              /\ result'.metadata = result.metadata
              /\ result'.permissionBindings = result.permissionBindings]_vars

\* setFormula was just called with a text on packageParts in which two paths
\* include 'Section1.m', and the first of them took it
FormulaSetOnFirstOfTwo ==
    /\ HasContainer
    /\ calls # <<>>
    /\ LastCall.op = "setFormula"
    /\ LastCall.formula # <<>>
    /\ Cardinality({k \in 1..Len(result.packageParts) :
                      Includes(result.packageParts[k].path, FormulaSectionDefault)}) = 2
    /\ result.packageParts[FindFormulaFile(result.packageParts)].data.v = LastCall.formula


\* C29: in every Container ParseXml returned, the item getFormula() selects,
\* the first whose path includes 'Section1.m', has a text payload, and every
\* getFormula() that returned a payload returned text
FormulaEntryIsText ==
    HasContainer =>
        /\ FindFormulaFile(result.packageParts) # 0 =>
              result.packageParts[FindFormulaFile(result.packageParts)].data.isString
        /\ \A k \in 1..Len(calls) :
              (calls[k].op = "getFormula" /\ calls[k].returned.defined) =>
                  calls[k].returned.data.isString


\* the Container ParseXml returned, from what it decoded
ContainerAtParse ==
    [version |-> rootData.version,
     packageParts |-> locals.packageParts,
     permissions |-> locals.permissions,
     metadata |-> [version |-> metadataData.version,
                   metadata |-> locals.metadataXml,
                   content |-> unzipChunks(metadataData.content)],
     permissionBindings |-> rootData.permissionBindings]

\* the Container after the first n calls of getFormula, setFormula and
\* resetPermissions
RECURSIVE ContainerAfter(_)
ContainerAfter(n) ==
    IF n = 0 THEN ContainerAtParse
    ELSE LET before == ContainerAfter(n - 1)
             call == SelectSeq(calls, IsOp)[n]
         IN  CASE call.op = "getFormula" ->
                    [before EXCEPT !.packageParts = getFormulaFile(@).packageParts]
               [] call.op = "setFormula" ->
                    [before EXCEPT !.packageParts = SetFormula(@, call.formula)]
               [] call.op = "resetPermissions" -> ResetPermissions(before)

\* the k-th save() was called before, and returned after, a setFormula or
\* resetPermissions that changed the Container
ChangedWhileSaving(k) ==
    /\ saved[k].opsAtReturn > saved[k].opsAtCall
    /\ ContainerAfter(saved[k].opsAtCall).packageParts
          # ContainerAfter(saved[k].opsAtReturn).packageParts
       \/ ContainerAfter(saved[k].opsAtCall).permissions
          # ContainerAfter(saved[k].opsAtReturn).permissions

====
